---- MODULE Spec2Model ----
(***************************************************************************)
(* Model of changelog_helper/release_changelog.py: the version-name check, *)
(* the listing of released versions, the release transition, the changelog *)
(* aggregation and the command-line driver.                                *)
(*                                                                         *)
(* Text is modelled as sequences of one-character strings, so that         *)
(* indexing, slicing, splitting and integer parsing are computed as the    *)
(* Python code computes them.                                              *)
(***************************************************************************)
EXTENDS Integers, Sequences, FiniteSets, TLC

VARIABLES
    unreleased,   \* changelogs/unreleased: the set of file names in it
    released,     \* changelogs/released: its entries, in os.listdir order
    staged,       \* paths handed to "git add"
    changelog,    \* CHANGELOG.md: <<>> when absent, <<lines>> when present
    archive,      \* changelogs/archive.md: <<>> when absent, <<lines>>
    today,        \* the calendar day datetime.date.today() returns
    argv,         \* the arguments of the last invocation
    exitCode,     \* the exit code of the last invocation
    out,          \* what the last invocation printed
    probe,        \* the input of the function under test
    answer        \* the value the function under test returned

vars == <<unreleased, released, staged, changelog, archive, today,
          argv, exitCode, out, probe, answer>>

(***************************************************************************)
(* Bounds.                                                                 *)
(***************************************************************************)
MaxLen == 4        \* longest version string given to check_version
MaxEntries == 3    \* most entries of the release area in the listing check
MaxDay == 2        \* days the clock can show

(***************************************************************************)
(* Text helpers.                                                           *)
(***************************************************************************)
Digits == <<"0", "1", "2", "3", "4", "5", "6", "7", "8", "9">>

IsDigit(c) == \E i \in 1..10 : Digits[i] = c

DigitVal(c) == (CHOOSE i \in 1..10 : Digits[i] = c) - 1

\* s[from:] of Python for a 0-based, non-negative from
Drop(s, from) == SubSeq(s, from + 1, Len(s))

\* s[-n:] of Python
LastN(s, n) == IF Len(s) <= n THEN s ELSE SubSeq(s, Len(s) - n + 1, Len(s))

\* str.split('.')
RECURSIVE Split(_)
Split(s) ==
    IF \A i \in 1..Len(s) : s[i] # "."
    THEN <<s>>
    ELSE LET i == CHOOSE k \in 1..Len(s) :
                      s[k] = "." /\ \A j \in 1..(k - 1) : s[j] # "."
         IN  <<SubSeq(s, 1, i - 1)>> \o Split(SubSeq(s, i + 1, Len(s)))

\* str.strip() as int() applies it: leading and trailing blanks removed
RECURSIVE Strip(_)
Strip(s) ==
    IF Len(s) = 0 THEN s
    ELSE IF s[1] = " " THEN Strip(Tail(s))
    ELSE IF s[Len(s)] = " " THEN Strip(SubSeq(s, 1, Len(s) - 1))
    ELSE s

RECURSIVE DecVal(_)
DecVal(s) ==
    IF Len(s) = 0 THEN 0
    ELSE 10 * DecVal(SubSeq(s, 1, Len(s) - 1)) + DigitVal(s[Len(s)])

\* int(s) of Python: blanks around, an optional sign, then decimal digits;
\* ok = FALSE stands for ValueError
PyInt(s) ==
    LET t == Strip(s)
        signed == Len(t) > 0 /\ t[1] \in {"+", "-"}
        body == IF signed THEN Tail(t) ELSE t
    IN  IF Len(body) = 0 \/ \E i \in 1..Len(body) : ~IsDigit(body[i])
        THEN [ok |-> FALSE, val |-> 0]
        ELSE [ok |-> TRUE,
              val |-> IF signed /\ t[1] = "-" THEN 0 - DecVal(body)
                      ELSE DecVal(body)]

(***************************************************************************)
(* check_version and the sort key.                                         *)
(***************************************************************************)
\* tuple(map(int, version[1:].split('.'))); defined when every part parses
version_strings_key(version) ==
    LET parts == Split(Drop(version, 1))
    IN  [i \in 1..Len(parts) |-> PyInt(parts[i]).val]

KeyParses(version) ==
    LET parts == Split(Drop(version, 1))
    IN  \A i \in 1..Len(parts) : PyInt(parts[i]).ok

\* the outcome of check_version: "ok", or the exception it raises
check_version(version_string) ==
    IF Len(version_string) = 0 THEN "IndexError"
    ELSE IF version_string[1] # "v" THEN "CheckVersionException"
    ELSE IF Len(version_string) < 2 THEN "CheckVersionException"
    ELSE IF ~KeyParses(version_string) THEN "CheckVersionException"
    ELSE "ok"

(***************************************************************************)
(* The release area: a sequence of entries in the order os.listdir returns *)
(* them.  An entry is a plain file or a folder; a folder holds its files   *)
(* (in listing order) and, in info, the decoded release-info file: <<>>    *)
(* when the file is absent, <<dict>> when it is there.                     *)
(***************************************************************************)
Names(area) == {area[i].name : i \in 1..Len(area)}

\* os.path.isdir on a path of the release area
os_path_isdir(area, name) ==
    \E i \in 1..Len(area) : area[i].name = name /\ area[i].isdir

\* os.path.exists on a path of the release area
os_path_exists(area, name) == name \in Names(area)

Entry(area, name) == area[CHOOSE i \in 1..Len(area) : area[i].name = name]

\* Python's order on tuples of integers: a < b
TupleLess(a, b) ==
    \/ \E i \in 1..Len(a) :
          /\ i <= Len(b)
          /\ a[i] < b[i]
          /\ \A j \in 1..(i - 1) : a[j] = b[j]
    \/ /\ Len(a) < Len(b)
       /\ \A j \in 1..Len(a) : a[j] = b[j]

\* the same insertion for a sort without reverse=True
InsertAscending(acc, x) ==
    LET k == version_strings_key(x)
        before == {i \in 1..Len(acc) :
                      \A j \in 1..i : ~TupleLess(k, version_strings_key(acc[j]))}
        n == Cardinality(before)
    IN  SubSeq(acc, 1, n) \o <<x>> \o SubSeq(acc, n + 1, Len(acc))

\* where the stable descending sort puts x in the sorted list acc: behind
\* every element whose key is not smaller than the key of x
InsertDescending(acc, x) ==
    LET k == version_strings_key(x)
        before == {i \in 1..Len(acc) :
                      \A j \in 1..i : ~TupleLess(version_strings_key(acc[j]), k)}
        n == Cardinality(before)
    IN  SubSeq(acc, 1, n) \o <<x>> \o SubSeq(acc, n + 1, Len(acc))

\* sorted(version_folders, key=version_strings_key, reverse=True)
RECURSIVE SortedReverse(_)
SortedReverse(folders) ==
    IF Len(folders) = 0 THEN <<>>
    ELSE InsertDescending(SortedReverse(SubSeq(folders, 1, Len(folders) - 1)),
                          folders[Len(folders)])

\* the loop of get_version_folders over the first n entries: the folders
\* kept, the warnings printed, and whether an exception escaped
RECURSIVE ScanFolders(_, _)
ScanFolders(area, n) ==
    IF n = 0 THEN [folders |-> <<>>, out |-> <<>>, raised |-> FALSE]
    ELSE LET r == ScanFolders(area, n - 1)
             e == area[n]
             c == check_version(e.name)
         IN  IF r.raised THEN r
             ELSE IF ~e.isdir
             THEN [r EXCEPT !.out = Append(@, <<"is not directory", e.name>>)]
             ELSE IF c = "ok"
             THEN [r EXCEPT !.folders = Append(@, e.name)]
             ELSE IF c = "CheckVersionException"
             THEN [r EXCEPT !.out = Append(@, <<"unsupported format", e.name>>)]
             ELSE [r EXCEPT !.raised = TRUE]

get_version_folders(area) ==
    LET r == ScanFolders(area, Len(area))
    IN  IF r.raised THEN r
        ELSE [r EXCEPT !.folders = SortedReverse(@)]

(***************************************************************************)
(* Files and their content.                                                *)
(***************************************************************************)
YmlSuffix == <<".", "y", "m", "l">>

FileA == <<"a">> \o YmlSuffix
FileB == <<"b">> \o YmlSuffix
FileC == <<"c">> \o YmlSuffix
FileX == <<"x">> \o YmlSuffix
FileT == <<"n", ".", "t", "x", "t">>

YmlFiles == {FileA, FileB, FileC, FileX}

AllFiles == YmlFiles \cup {FileT}

\* what yaml.load returns for each file: the fragments of two authors, and
\* one record that lacks 'title'
Content(file) ==
    CASE file = FileA -> [author |-> "ana", title |-> "Fix bug"]
      [] file = FileB -> [author |-> "bo", title |-> "Add feature"]
      [] file = FileC -> [author |-> "ana", title |-> "Tidy up"]
      [] file = FileX -> [author |-> "bo"]
      [] OTHER -> [text |-> "notes"]

\* a filter that lets every name through
IsAnyName(x) == TRUE

\* lambda x: x[-4:] == '.yml'
IsYml(x) == LastN(x, 4) = YmlSuffix

\* git config user.name
get_author == "rel"

\* datetime.date.isoformat, for the days the clock can show
IsoDates == <<"2026-11-01", "2026-11-02", "2026-11-03", "2026-11-04">>

isoformat(day) == IsoDates[day]

(***************************************************************************)
(* The lines of the changelog.                                             *)
(***************************************************************************)
HeaderLine == <<"**Note:** This file is automatically generated.">>
BlankLine == <<"\n">>

VersionLine(number, date) == <<"## Version", number, date>>
AuthorLine(author) == <<"*@", author>>
BulletLine(title) == <<"- ", title>>

(***************************************************************************)
(* Aggregation.                                                            *)
(***************************************************************************)
\* get_version_changes with the author's list reset at every fragment
RECURSIVE CollectChangesResetting(_, _)
CollectChangesResetting(yml_files, n) ==
    IF n = 0 THEN [raised |-> FALSE, changes |-> <<>>]
    ELSE LET r == CollectChangesResetting(yml_files, n - 1)
             entry == Content(yml_files[n])
         IN  IF r.raised THEN r
             ELSE IF ~({"author", "title"} \subseteq DOMAIN entry)
             THEN [r EXCEPT !.raised = TRUE]
             ELSE LET known == {i \in 1..Len(r.changes) :
                                   r.changes[i].author = entry.author}
                      line == BulletLine(entry.title)
                  IN  IF known = {}
                      THEN [r EXCEPT !.changes =
                               Append(@, [author |-> entry.author,
                                          lines |-> <<line>>])]
                      ELSE LET i == CHOOSE k \in known : TRUE
                           IN  [r EXCEPT !.changes[i].lines = <<line>>]

\* the dict of get_version_changes after the first n '.yml' files of the
\* folder: the authors in insertion order, each with its bullet lines
RECURSIVE CollectChanges(_, _)
CollectChanges(yml_files, n) ==
    IF n = 0 THEN [raised |-> FALSE, changes |-> <<>>]
    ELSE LET r == CollectChanges(yml_files, n - 1)
             entry == Content(yml_files[n])
         IN  IF r.raised THEN r
             ELSE IF ~({"author", "title"} \subseteq DOMAIN entry)
             THEN [r EXCEPT !.raised = TRUE]
             ELSE LET known == {i \in 1..Len(r.changes) :
                                   r.changes[i].author = entry.author}
                      line == BulletLine(entry.title)
                  IN  IF known = {}
                      THEN [r EXCEPT !.changes =
                               Append(@, [author |-> entry.author,
                                          lines |-> <<line>>])]
                      ELSE LET i == CHOOSE k \in known : TRUE
                           IN  [r EXCEPT !.changes[i].lines = Append(@, line)]

get_version_changes(area, version) ==
    LET yml_files == SelectSeq(Entry(area, version).files, IsYml)
    IN  CollectChanges(yml_files, Len(yml_files))

\* dict()
EmptyDict == [k \in {} |-> ""]

get_release_info(area, version) ==
    LET info == Entry(area, version).info
    IN  IF Len(info) = 0 THEN EmptyDict ELSE info[1]

\* release_info.get('date', '')
DateOf(release_info) ==
    IF "date" \in DOMAIN release_info THEN release_info.date ELSE ""

\* the lines the loop over changes appends: per author the attribution line
\* and the author's bullet lines
RECURSIVE AuthorBlocks(_, _)
AuthorBlocks(changes, n) ==
    IF n = 0 THEN <<>>
    ELSE AuthorBlocks(changes, n - 1)
             \o <<AuthorLine(changes[n].author)>> \o changes[n].lines

\* the loop of build_changelog over the first n listed versions
RECURSIVE VersionSections(_, _, _)
VersionSections(area, versions, n) ==
    IF n = 0 THEN [raised |-> FALSE, lines |-> <<HeaderLine, BlankLine>>]
    ELSE LET r == VersionSections(area, versions, n - 1)
             version == versions[n]
             release_info == get_release_info(area, version)
             c == get_version_changes(area, version)
         IN  IF r.raised THEN r
             ELSE IF c.raised THEN [r EXCEPT !.raised = TRUE]
             ELSE [r EXCEPT !.lines =
                      @ \o <<VersionLine(Drop(version, 1), DateOf(release_info))>>
                        \o AuthorBlocks(c.changes, Len(c.changes))
                        \o <<BlankLine>>]

\* build_changelog: the lines, the warnings printed on the way, and whether
\* an exception escaped; arch is archive.md
build_changelog(area, arch) ==
    LET l == get_version_folders(area)
        r == VersionSections(area, l.folders, Len(l.folders))
    IN  IF l.raised THEN [raised |-> TRUE, lines |-> <<>>, out |-> l.out]
        ELSE IF r.raised THEN [raised |-> TRUE, lines |-> <<>>, out |-> l.out]
        ELSE [raised |-> FALSE,
              lines |-> IF Len(arch) = 0 THEN r.lines ELSE r.lines \o arch[1],
              out |-> l.out]

(***************************************************************************)
(* The release transition.                                                 *)
(***************************************************************************)
Perms(S) ==
    {p \in [1..Cardinality(S) -> S] :
        \A i, j \in 1..Cardinality(S) : p[i] = p[j] => i = j}

InsertAt(seq, pos, x) ==
    SubSeq(seq, 1, pos) \o <<x>> \o SubSeq(seq, pos + 1, Len(seq))

\* write_release_info with the date left out of the record
write_release_info_undated(folder, day) ==
    [entry |-> [folder EXCEPT !.info = <<[released_by |-> get_author]>>],
     out |-> IF Len(folder.info) > 0
             THEN <<<<"Release-info already exists and will be erased">>>>
             ELSE <<>>]

\* write_release_info on the folder entry: the warning when the file is
\* there already, then the file with today's date and the user's name
write_release_info(folder, day) ==
    [entry |-> [folder EXCEPT !.info = <<[date |-> isoformat(day),
                                          released_by |-> get_author]>>],
     out |-> IF Len(folder.info) > 0
             THEN <<<<"Release-info already exists and will be erased">>>>
             ELSE <<>>]

\* what shutil.copy would leave in the unreleased area
left_after_copy(unrel, files_to_move) == unrel

\* what the shutil.move calls leave in the unreleased area
left_after_move(unrel, files_to_move) == unrel \ files_to_move

\* move_unreleased_changelogs on the store (unrel, area, stg): pos is where
\* the file system lists the new folder, order how it lists the moved files
move_unreleased_changelogs(version, unrel, area, stg, day, pos, order) ==
    LET files_to_move == {f \in unrel : IsYml(f)}
        empty_folder == [name |-> version, isdir |-> TRUE,
                         files |-> <<>>, info |-> <<>>]
        w == write_release_info([empty_folder EXCEPT !.files = order], day)
    IN  IF os_path_exists(area, version)
        THEN [exit |-> 1, unreleased |-> unrel, released |-> area,
              staged |-> stg,
              out |-> <<<<"Changelog for this version already exists.">>>>]
        ELSE IF files_to_move = {}
        THEN [exit |-> 1, unreleased |-> unrel,
              released |-> InsertAt(area, pos, empty_folder),
              staged |-> stg,
              out |-> <<<<"There is no unreleased changes.">>>>]
        ELSE [exit |-> 0, unreleased |-> left_after_move(unrel, files_to_move),
              released |-> InsertAt(area, pos, w.entry),
              staged |-> stg \cup {version},
              out |-> w.out]

(***************************************************************************)
(* The command-line driver: one invocation of the tool.                    *)
(***************************************************************************)
\* the arguments an invocation is given; "v" is argparse's default
DefaultVersion == <<"v">>

Versions == {DefaultVersion, <<"v", "1">>, <<"v", "0", "1">>}

\* the release step of an invocation whatever --rebuild says
transition_always(version, rebuild, pos, order) ==
    move_unreleased_changelogs(version, unreleased, released, staged, today,
                               pos, order)

\* the release step of an invocation: skipped under --rebuild
transition(version, rebuild, pos, order) ==
    IF rebuild
    THEN [exit |-> 0, unreleased |-> unreleased, released |-> released,
          staged |-> staged, out |-> <<>>]
    ELSE move_unreleased_changelogs(version, unreleased, released, staged,
                                    today, pos, order)

\* CHANGELOG.md when the file is opened for writing before the build
write_changelog_early(b, old) ==
    IF b.raised THEN <<<<>>>> ELSE <<b.lines>>

\* CHANGELOG.md after "changelog = build_changelog()" and the write: the
\* file is opened only when the build has returned
write_changelog(b, old) ==
    IF b.raised THEN old ELSE <<b.lines>>

\* main(): validation, the release transition unless --rebuild, the build,
\* and only then the write of CHANGELOG.md
main(version, rebuild, pos, order) ==
    LET cv == check_version(version)
        mv == transition(version, rebuild, pos, order)
        b == build_changelog(mv.released, archive)
    IN  /\ argv' = <<[version |-> version, rebuild |-> rebuild]>>
        /\ UNCHANGED <<archive, today, probe, answer>>
        /\ IF ~rebuild /\ cv # "ok"
           THEN /\ exitCode' = 1
                /\ out' = <<<<cv>>>>
                /\ UNCHANGED <<unreleased, released, staged, changelog>>
           ELSE /\ unreleased' = mv.unreleased
                /\ released' = mv.released
                /\ staged' = mv.staged
                /\ IF mv.exit # 0
                   THEN /\ exitCode' = mv.exit
                        /\ out' = mv.out
                        /\ UNCHANGED changelog
                   ELSE /\ exitCode' = IF b.raised THEN 1 ELSE 0
                        /\ out' = mv.out \o b.out
                                     \o IF b.raised THEN <<<<"Traceback">>>>
                                        ELSE <<>>
                        /\ changelog' = write_changelog(b, changelog)

Invocations ==
    [version : Versions, rebuild : {FALSE}]
        \cup [version : {DefaultVersion}, rebuild : {TRUE}]

\* the ways the file system can list what an invocation creates: where the
\* new folder comes in the release area, and the order of the moved files;
\* an invocation that creates nothing has one way
Listable(args) ==
    LET orders == Perms({f \in unreleased : IsYml(f)})
    IN  IF args.rebuild \/ check_version(args.version) # "ok"
               \/ os_path_exists(released, args.version)
        THEN {[pos |-> 0, order |-> CHOOSE p \in orders : TRUE]}
        ELSE [pos : 0..Len(released), order : orders]

Invoke ==
    \E args \in Invocations :
        \E way \in Listable(args) :
            main(args.version, args.rebuild, way.pos, way.order)

\* midnight: datetime.date.today() moves on
Tick ==
    /\ today < MaxDay
    /\ today' = today + 1
    /\ UNCHANGED <<unreleased, released, staged, changelog, archive,
                   argv, exitCode, out, probe, answer>>

(***************************************************************************)
(* The stores an invocation can start from.                                *)
(***************************************************************************)
ArchiveLines == <<<<"## Version 0.9 (2019-01-01)">>, BlankLine, <<"- old">>>>

OldChangelog == <<<<"stale">>>>

Folder(name, files, info) ==
    [name |-> name, isdir |-> TRUE, files |-> files, info |-> info]

PlainFile(name) ==
    [name |-> name, isdir |-> FALSE, files |-> <<>>, info |-> <<>>]

InitialAreas ==
    { <<>>,
      <<Folder(<<"v", "1">>, <<FileC>>,
               <<[date |-> "2026-10-01", released_by |-> "zed"]>>)>>,
      <<PlainFile(<<"v", "0", "1">>),
        Folder(<<"o", "l", "d">>, <<FileC>>, <<>>)>> }

FilesOf(area) == UNION {{area[i].files[k] : k \in 1..Len(area[i].files)} :
                           i \in 1..Len(area)}

Init ==
    /\ released \in InitialAreas
    /\ unreleased \in {fragments \cup {FileT} :
                          fragments \in SUBSET (YmlFiles \ FilesOf(released))}
    /\ staged = {}
    /\ changelog \in {<<>>, <<OldChangelog>>}
    /\ archive \in {<<>>, <<ArchiveLines>>}
    /\ today = 1
    /\ argv = <<>>
    /\ exitCode = 0
    /\ out = <<>>
    /\ probe = <<>>
    /\ answer = <<>>

Next == Invoke \/ Tick

Spec == Init /\ [][Next]_vars

(***************************************************************************)
(* check_version applied to every short string over an alphabet that holds *)
(* the marker, the separator, digits, signs, a blank and a letter.         *)
(***************************************************************************)
Alphabet == {"v", ".", "0", "1", "2", "-", "+", " ", "a"}

\* the strings of at most n characters
Strings(n) == UNION {[1..k -> Alphabet] : k \in 0..n}

InitVersion ==
    /\ probe \in Strings(MaxLen)
    /\ answer = <<>>
    /\ unreleased = {}
    /\ released = <<>>
    /\ staged = {}
    /\ changelog = <<>>
    /\ archive = <<>>
    /\ today = 1
    /\ argv = <<>>
    /\ exitCode = 0
    /\ out = <<>>

CheckVersionStep ==
    /\ answer = <<>>
    /\ answer' = <<[status |-> check_version(probe),
                    key |-> IF check_version(probe) = "ok"
                            THEN version_strings_key(probe) ELSE <<>>]>>
    /\ UNCHANGED <<unreleased, released, staged, changelog, archive, today,
                   argv, exitCode, out, probe>>

NextVersion == CheckVersionStep

SpecVersion == InitVersion /\ [][NextVersion]_vars

(***************************************************************************)
(* get_version_folders applied to small release areas.                     *)
(***************************************************************************)
V1_2_0 == <<"v", "1", ".", "2", ".", "0">>
V1_10_0 == <<"v", "1", ".", "1", "0", ".", "0">>
V1_2_5 == <<"v", "1", ".", "2", ".", "5">>
V1_2 == <<"v", "1", ".", "2">>
V1 == <<"v", "1">>
V01 == <<"v", "0", "1">>
OldName == <<"o", "l", "d">>

ListingNames == {V1_2_0, V1_10_0, V1_2_5, V1_2, V1, V01, OldName, DefaultVersion}

ListedEntry(name, isdir) ==
    [name |-> name, isdir |-> isdir, files |-> <<>>, info |-> <<>>]

\* the release areas of k entries with distinct names
RECURSIVE ListingsOf(_)
ListingsOf(k) ==
    IF k = 0 THEN {<<>>}
    ELSE UNION {{Append(l, ListedEntry(n, d)) :
                    n \in ListingNames \ Names(l), d \in BOOLEAN} :
                l \in ListingsOf(k - 1)}

\* the release areas of at most n entries
Listings(n) == UNION {ListingsOf(k) : k \in 0..n}

InitListing ==
    /\ released \in Listings(MaxEntries)
    /\ answer = <<>>
    /\ probe = <<>>
    /\ unreleased = {}
    /\ staged = {}
    /\ changelog = <<>>
    /\ archive = <<>>
    /\ today = 1
    /\ argv = <<>>
    /\ exitCode = 0
    /\ out = <<>>

ListStep ==
    /\ answer = <<>>
    /\ answer' = <<get_version_folders(released)>>
    /\ UNCHANGED <<unreleased, released, staged, changelog, archive, today,
                   argv, exitCode, out, probe>>

NextListing == ListStep

SpecListing == InitListing /\ [][NextListing]_vars

(***************************************************************************)
(* C4: check_version succeeds exactly for the marker 'v' followed by a     *)
(* non-empty remainder whose parts, split on '.', all parse as             *)
(* non-negative integers; every other string fails with                    *)
(* CheckVersionException; the sort key of an accepted string is the tuple  *)
(* of the parsed integers.                                                 *)
(***************************************************************************)
NonNegativeParts(s) ==
    LET parts == Split(Drop(s, 1))
    IN  \A i \in 1..Len(parts) : PyInt(parts[i]).ok /\ PyInt(parts[i]).val >= 0

ValidVersionString(s) ==
    /\ Len(s) >= 2
    /\ s[1] = "v"
    /\ NonNegativeParts(s)

C4_VersionValidation ==
    answer # <<>> =>
        /\ (answer[1].status = "ok") <=> ValidVersionString(probe)
        /\ ~ValidVersionString(probe) =>
               answer[1].status = "CheckVersionException"
        /\ answer[1].status = "ok" =>
               /\ Len(answer[1].key) = Len(Split(Drop(probe, 1)))
               /\ \A i \in 1..Len(answer[1].key) :
                      answer[1].key[i] = PyInt(Split(Drop(probe, 1))[i]).val

(***************************************************************************)
(* C5: get_version_folders never fails; it returns exactly the folders     *)
(* whose names pass check_version, every other entry being skipped with a  *)
(* warning, in descending order of their integer tuples, names with equal  *)
(* tuples in the order of the directory listing; v1.2.0, v1.10.0, v1.2.5   *)
(* come out as v1.10.0, v1.2.5, v1.2.0.                                    *)
(***************************************************************************)
IndexIn(seq, x) == CHOOSE i \in 1..Len(seq) : seq[i] = x

NamesAt(area) == [i \in 1..Len(area) |-> area[i].name]

Accepted(area) ==
    {area[i].name : i \in {k \in 1..Len(area) :
                              area[k].isdir /\ check_version(area[k].name) = "ok"}}

Range(seq) == {seq[i] : i \in 1..Len(seq)}

ListingBasics(area, r) ==
    /\ ~r.raised
    /\ Range(r.folders) = Accepted(area)
    /\ Len(r.folders) = Cardinality(Accepted(area))
    /\ \A i \in 1..Len(area) :
          area[i].name \notin Accepted(area) =>
              \E k \in 1..Len(r.out) : r.out[k][2] = area[i].name
    /\ Accepted(area) = {V1_2_0, V1_10_0, V1_2_5} =>
          r.folders = <<V1_10_0, V1_2_5, V1_2_0>>

C5_ListingDescending ==
    answer # <<>> =>
        LET f == answer[1].folders
        IN  /\ ListingBasics(released, answer[1])
            /\ \A i, j \in 1..Len(f) :
                  i < j =>
                      \/ TupleLess(version_strings_key(f[j]),
                                   version_strings_key(f[i]))
                      \/ /\ version_strings_key(f[j]) = version_strings_key(f[i])
                         /\ IndexIn(NamesAt(released), f[i])
                                < IndexIn(NamesAt(released), f[j])

\* C5 as first stated: the order is strictly descending
C5_ListingStrictlyDescending ==
    answer # <<>> =>
        LET f == answer[1].folders
        IN  /\ ListingBasics(released, answer[1])
            /\ \A i, j \in 1..Len(f) :
                  i < j => TupleLess(version_strings_key(f[j]),
                                     version_strings_key(f[i]))

C5_Witness ==
    /\ answer # <<>>
    /\ NamesAt(released) = <<V01, V1_10_0, V1>>
    /\ answer[1].folders = <<V1_10_0, V01, V1>>

(***************************************************************************)
(* Vocabulary of the claims about invocations.                             *)
(***************************************************************************)
HasYmlSuffix(f) ==
    /\ Len(f) >= 4
    /\ \A i \in 1..4 : f[Len(f) - 4 + i] = YmlSuffix[i]

Pending(unrel) == {f \in unrel : HasYmlSuffix(f)}

HasEntry(area, name) == \E i \in 1..Len(area) : area[i].name = name

HasFolder(area, name) ==
    \E i \in 1..Len(area) : area[i].name = name /\ area[i].isdir

EntryOf(area, name) == area[IndexIn(NamesAt(area), name)]

\* this step is an invocation "release version"
ReleaseStep(version) ==
    /\ today' = today
    /\ argv' = <<[version |-> version, rebuild |-> FALSE]>>

\* this step is an invocation "--rebuild"
RebuildStep ==
    /\ today' = today
    /\ argv' # <<>>
    /\ argv'[1].rebuild

Printed(text) == \E i \in 1..Len(out) : out[i] = <<text>>

ValidVersions == {v \in Versions : ValidVersionString(v)}

\* what a successful release(version) leaves behind
ReleasedInto(version) ==
    /\ unreleased' = unreleased \ Pending(unreleased)
    /\ HasFolder(released', version)
    /\ Range(EntryOf(released', version).files) = Pending(unreleased)
    /\ Len(EntryOf(released', version).files) = Cardinality(Pending(unreleased))
    /\ EntryOf(released', version).info =
           <<[date |-> isoformat(today), released_by |-> get_author]>>

\* a repeated release(version) is refused and alters no file
SecondReleaseRefused(version) ==
    (ReleaseStep(version) /\ version \in staged) =>
        /\ exitCode' = 1
        /\ out' = <<<<"Changelog for this version already exists.">>>>
        /\ UNCHANGED <<unreleased, released, staged, changelog, archive>>

(***************************************************************************)
(* C1: releasing a version v for which the release area has no entry of    *)
(* any kind, with a non-empty set F of '.yml' files pending, leaves none   *)
(* of F in the unreleased area and makes released/v hold exactly F plus a  *)
(* release-info with today's date and the configured user name; a second   *)
(* release of v is refused as a duplicate and alters no file.              *)
(***************************************************************************)
C1_ReleaseOfNewEntry ==
    [][\A v \in ValidVersions :
          /\ (ReleaseStep(v) /\ ~HasEntry(released, v)
                  /\ Pending(unreleased) # {}) => ReleasedInto(v)
          /\ SecondReleaseRefused(v)]_vars

\* C1 as first stated: it is enough that v has no folder
C1_ReleaseOfNewFolder ==
    [][\A v \in ValidVersions :
          /\ (ReleaseStep(v) /\ ~HasFolder(released, v)
                  /\ Pending(unreleased) # {}) => ReleasedInto(v)
          /\ SecondReleaseRefused(v)]_vars

C1_Witness ==
    /\ argv # <<>>
    /\ ~argv[1].rebuild
    /\ argv[1].version \in staged
    /\ exitCode = 1
    /\ Printed("Changelog for this version already exists.")
    /\ FileT \in unreleased
    /\ Range(EntryOf(released, argv[1].version).files) = {FileA, FileB}
    /\ EntryOf(released, argv[1].version).info[1].date = isoformat(1)
    /\ today = 2

(***************************************************************************)
(* C2: when any path named v exists in the release area, an invocation     *)
(* releasing v exits with code 1 and changes nothing: not the unreleased   *)
(* area, not the release area, not CHANGELOG.md.                           *)
(***************************************************************************)
C2_DuplicateRelease ==
    [][\A v \in Versions :
          (ReleaseStep(v) /\ HasEntry(released, v)) =>
              /\ exitCode' = 1
              /\ UNCHANGED <<unreleased, released, staged, changelog, archive>>]_vars

C2_Witness ==
    /\ argv # <<>>
    /\ ~argv[1].rebuild
    /\ HasEntry(released, argv[1].version)
    /\ ~HasFolder(released, argv[1].version)
    /\ exitCode = 1
    /\ Printed("Changelog for this version already exists.")
    /\ Pending(unreleased) # {}

(***************************************************************************)
(* C3: with no '.yml' file pending, releasing a version v that does not    *)
(* exist yet exits with code 1; released/v gets no file and no             *)
(* release-info (at most the empty folder appears), the unreleased area    *)
(* and every other entry are unchanged, and nothing is staged.             *)
(***************************************************************************)
C3_NoPendingChanges ==
    [][\A v \in Versions :
          (ReleaseStep(v) /\ ~HasEntry(released, v)
              /\ Pending(unreleased) = {}) =>
              /\ exitCode' = 1
              /\ UNCHANGED <<unreleased, staged>>
              /\ Names(released') \subseteq Names(released) \cup {v}
              /\ \A n \in Names(released) :
                    HasEntry(released', n)
                        /\ EntryOf(released', n) = EntryOf(released, n)
              /\ HasEntry(released', v) =>
                    /\ EntryOf(released', v).files = <<>>
                    /\ EntryOf(released', v).info = <<>>]_vars

C3_Witness ==
    /\ argv # <<>>
    /\ ~argv[1].rebuild
    /\ exitCode = 1
    /\ Printed("There is no unreleased changes.")
    /\ FileT \in unreleased
    /\ HasFolder(released, argv[1].version)
    /\ EntryOf(released, argv[1].version).files = <<>>
    /\ EntryOf(released, argv[1].version).info = <<>>
    /\ Len(released) > 1

(***************************************************************************)
(* C6: the changelog is the header and a blank line; then, per released    *)
(* version in listing order, a heading with the number (marker stripped)   *)
(* and the release date ("" without release-info), per author in order of  *)
(* first encounter an attribution line and the author's bullets in reading *)
(* order, and a blank line; then the lines of archive.md as they are.      *)
(***************************************************************************)
Fragments(area, version) ==
    LET files == EntryOf(area, version).files
    IN  SelectSeq(files, HasYmlSuffix)

\* the authors of a folder, each once, ordered by their first fragment
AuthorsInOrder(frags) ==
    LET authors == {Content(frags[i]).author : i \in 1..Len(frags)}
        first(a) == CHOOSE i \in 1..Len(frags) :
                        /\ Content(frags[i]).author = a
                        /\ \A j \in 1..(i - 1) : Content(frags[j]).author # a
    IN  CHOOSE s \in [1..Cardinality(authors) -> authors] :
            \A i, j \in 1..Cardinality(authors) :
                i < j => first(s[i]) < first(s[j])

BulletsOf(frags, author) ==
    LET by(f) == Content(f).author = author
        own == SelectSeq(frags, by)
    IN  [i \in 1..Len(own) |-> BulletLine(Content(own[i]).title)]

RECURSIVE ExpectedBlocks(_, _, _)
ExpectedBlocks(frags, authors, n) ==
    IF n = 0 THEN <<>>
    ELSE ExpectedBlocks(frags, authors, n - 1)
             \o <<AuthorLine(authors[n])>> \o BulletsOf(frags, authors[n])

ExpectedDate(area, version) ==
    IF EntryOf(area, version).info = <<>> THEN ""
    ELSE EntryOf(area, version).info[1].date

ExpectedSection(area, version) ==
    LET frags == Fragments(area, version)
        authors == AuthorsInOrder(frags)
    IN  <<VersionLine(Tail(version), ExpectedDate(area, version))>>
            \o ExpectedBlocks(frags, authors, Len(authors))
            \o <<BlankLine>>

RECURSIVE ExpectedSections(_, _, _)
ExpectedSections(area, versions, n) ==
    IF n = 0 THEN <<>>
    ELSE ExpectedSections(area, versions, n - 1)
             \o ExpectedSection(area, versions[n])

ExpectedChangelog(area, arch) ==
    LET versions == get_version_folders(area).folders
    IN  <<HeaderLine, BlankLine>>
            \o ExpectedSections(area, versions, Len(versions))
            \o (IF arch = <<>> THEN <<>> ELSE arch[1])

C6_ChangelogStructure ==
    (argv # <<>> /\ exitCode = 0) =>
        changelog = <<ExpectedChangelog(released, archive)>>

C6_Witness ==
    /\ argv # <<>>
    /\ exitCode = 0
    /\ archive # <<>>
    /\ \E i \in 1..Len(released) :
          /\ released[i].files = <<FileA, FileB, FileC>>
          /\ check_version(released[i].name) = "ok"
    /\ \E i \in 1..Len(released) :
          /\ released[i].isdir
          /\ released[i].info = <<>>
          /\ check_version(released[i].name) = "ok"

(***************************************************************************)
(* C7: a rebuild that follows a successful invocation, with nothing        *)
(* changed in between, writes the same lines again, and a rebuild changes  *)
(* nothing in the unreleased and released areas.                           *)
(***************************************************************************)
C7_BuildIdempotent ==
    [][RebuildStep =>
          /\ UNCHANGED <<unreleased, released, staged, archive>>
          /\ (argv # <<>> /\ exitCode = 0) =>
                 (exitCode' = 0 /\ changelog' = changelog)]_vars

C7_Witness ==
    /\ argv # <<>>
    /\ argv[1].rebuild
    /\ exitCode = 0
    /\ today = 2
    /\ FileT \in unreleased
    /\ \E i \in 1..Len(released) :
          /\ Len(released[i].files) > 1
          /\ check_version(released[i].name) = "ok"
          /\ released[i].info # <<>>
          /\ released[i].info[1].date = isoformat(1)

(***************************************************************************)
(* C8: CHANGELOG.md changes only in an invocation that exits with code 0,  *)
(* that is after validation, the release transition (unless --rebuild) and *)
(* the whole build have succeeded; a failing invocation leaves it as it    *)
(* was.                                                                    *)
(***************************************************************************)
C8_AllOrNothing ==
    [][/\ (today' = today /\ exitCode' # 0) => changelog' = changelog
       /\ changelog' # changelog =>
              /\ exitCode' = 0
              /\ argv'[1].rebuild \/ argv'[1].version \in staged']_vars

C8_Witness ==
    /\ argv # <<>>
    /\ ~argv[1].rebuild
    /\ exitCode = 1
    /\ Printed("Traceback")
    /\ argv[1].version \in staged
    /\ changelog = <<OldChangelog>>
    /\ FileX \in Range(EntryOf(released, argv[1].version).files)

(***************************************************************************)
(* C9: from a store whose folders all hold a release-info and at least one *)
(* fragment, every folder of the release area holds a release-info and at  *)
(* least one fragment after any sequence of invocations.                   *)
(***************************************************************************)
WellFormedArea(area) ==
    \A i \in 1..Len(area) :
        area[i].isdir =>
            /\ Len(area[i].info) = 1
            /\ \E k \in 1..Len(area[i].files) : HasYmlSuffix(area[i].files[k])

InitWellFormed == Init /\ WellFormedArea(released)

SpecWellFormed == InitWellFormed /\ [][Next]_vars

C9_ReleasesWellFormed == WellFormedArea(released)

(***************************************************************************)
(* C10: every file stays in exactly one place, the unreleased area or one  *)
(* folder; once release(v) has succeeded no invocation changes the files   *)
(* or the release-info of v or removes the folder, and the overwrite of an *)
(* existing release-info is never reached.                                 *)
(***************************************************************************)
Places(unrel, area, f) ==
    (IF f \in unrel THEN {<<0, 0>>} ELSE {})
        \cup UNION {{<<i, k>> : k \in {j \in 1..Len(area[i].files) :
                                          area[i].files[j] = f}} :
                    i \in 1..Len(area)}

C10_ReleasedImmutable ==
    [][/\ \A f \in AllFiles :
             Cardinality(Places(unreleased', released', f))
                 = Cardinality(Places(unreleased, released, f))
       /\ \A f \in AllFiles :
             Cardinality(Places(unreleased', released', f)) <= 1
       /\ \A v \in staged :
             /\ HasFolder(released', v)
             /\ EntryOf(released', v) = EntryOf(released, v)
       /\ \A i \in 1..Len(out') :
             out'[i] # <<"Release-info already exists and will be erased">>]_vars

C10_Witness ==
    /\ argv # <<>>
    /\ ~argv[1].rebuild
    /\ argv[1].version \notin staged
    /\ staged # {}
    /\ exitCode = 1
    /\ Printed("There is no unreleased changes.")
    /\ FileT \in unreleased
    /\ \E v \in staged : Len(EntryOf(released, v).files) = 3

====
